---- MODULE Spec2Model ----
(***************************************************************************)
(* aws-shortcuts: credential/region fan-out (get_aws_session), the resource *)
(* queries, the response normalizers (deserialize), the sorter              *)
(* (sort_data) and the pipeline loop (aws_search).                          *)
(*   Spec      a run of aws_search                                          *)
(*   SpecEnum  get_aws_session where a profile and a region are named "all" *)
(*   SpecNorm  deserialize and sort_data on a raw response                  *)
(*   SpecDns   get_elbs_by_dns_names and deserialize on a listing           *)
(***************************************************************************)
EXTENDS Integers, Sequences, FiniteSets, TLC

VARIABLES
    profile_name,   \* aws_search argument: a profile or "all"
    region_name,    \* aws_search argument: a region or "all"
    output,         \* aws_search argument: "table" or "json"
    func,           \* aws_search argument: the query function
    kwargs,         \* aws_search argument: the keywords handed on to func
    badProfiles,    \* environment: profiles for which boto3.Session(...) raises
    allNamed,       \* environment: whether a profile and a region named "all" exist
    gen,            \* get_aws_session: the stack of suspended generator frames
    status,         \* aws_search: "next" | "body" | "done" | "crashed"
    cur,            \* aws_search: the session of the current iteration
    queried,        \* history: one entry per call of func(session, **kwargs)
    presented,      \* history: one entry per call of print_data
    profiles,       \* history: what the available_profiles lookup gave
    regions,        \* history: per profile, what describe_regions gave
    nresponse,      \* normalizer harness: the raw response under test
    nresult         \* normalizer harness: what deserialize did with it

vars == <<profile_name, region_name, output, func, kwargs, badProfiles,
          allNamed, gen, status, cur, queried, presented, profiles, regions,
          nresponse, nresult>>

pipelineVars == <<profile_name, region_name, output, func, kwargs,
                  badProfiles, allNamed, gen, status, cur, queried, presented,
                  profiles, regions>>

harnessVars == <<nresponse, nresult>>

\* The arguments of aws_search and the environment: nothing assigns them.
inputs == <<profile_name, region_name, output, func, kwargs, badProfiles,
            allNamed>>

(***************************************************************************)
(* Bounds and name pools                                                    *)
(***************************************************************************)
\* describe_regions lists no more regions than keep the sessions handed to the
\* loop in one run at MaxContexts (the guard of ListRegions).
MaxContexts == 3

\* A normalizer is tried on responses of at most MaxLeaves resources.
MaxLeaves == 3

ProfileNames == {"default", "dev"}
RegionNames == {"eu-central-1", "us-east-1"}

ALL == "all"

\* Python's None, as a scalar field value.
None == "None"

\* Sequences over S without repetition, of length at most n.
RECURSIVE ListsOver(_, _)
ListsOver(S, n) ==
    IF n = 0 \/ S = {} THEN {<<>>}
    ELSE {<<>>} \cup UNION {{<<x>> \o t : t \in ListsOver(S \ {x}, n - 1)} : x \in S}

\* A name equal to the wildcard, where the environment has one: a profile
\* [profile all] of the configuration, a region the provider lists as "all".
Homonyms == IF allNamed THEN {ALL} ELSE {}

\* What boto3.Session().available_profiles can hold.
ProfileLists == ListsOver(ProfileNames \cup Homonyms, Cardinality(ProfileNames))

\* What describe_regions(...)["Regions"] can hold (the RegionName of each).
RegionLists == ListsOver(RegionNames \cup Homonyms, Cardinality(RegionNames))

\* The interpreter's recursion limit, counted in generator frames: the body
\* of a frame nested deeper than this raises RecursionError at its first call.
RecursionLimit == 4

(***************************************************************************)
(* get_aws_session: a recursive generator, kept as a stack of frames.       *)
(* A frame at "start" has not run yet; a frame at "loop" is inside its      *)
(* for-loop over items, about to take items[i].                             *)
(***************************************************************************)
Frame(p, r) == [profile_name |-> p, region_name |-> r, at |-> "start",
                items |-> <<>>, i |-> 1]

Top == gen[Len(gen)]

Pop == SubSeq(gen, 1, Len(gen) - 1)

ReplaceTop(f) == Pop \o <<f>>

\* The sessions aws_search has been handed so far.
Yielded == Len(queried)

Lookup(state, names) == [state |-> state, names |-> names]

Running == status = "next" /\ gen # <<>>

\* boto3.Session(profile_name=p, region_name=r)
SessionRaises(p) == p \in badProfiles

Session(p, r) == [profile_name |-> p, region_name |-> r]

\* The frame on top is nested too deep for the calls of its body.
TooDeep == Len(gen) > RecursionLimit

\* if profile_name == "all": profiles = boto3.Session().available_profiles
\* The lookup is outside any try: when it raises (RecursionError in a frame
\* nested too deep, anything else otherwise), the generator raises into the
\* for-loop of aws_search, which has no handler.
ListProfiles ==
    /\ Running
    /\ Top.at = "start"
    /\ Top.profile_name = ALL
    /\ \/ /\ ~TooDeep
          /\ \E names \in ProfileLists :
                /\ Len(names) <= MaxContexts - Yielded
                /\ gen' = ReplaceTop([Top EXCEPT !.at = "loop", !.items = names])
                /\ profiles' = Lookup("ok", names)
                /\ status' = status
       \/ /\ gen' = gen
          /\ profiles' = Lookup(IF TooDeep THEN "RecursionError" ELSE "failed", <<>>)
          /\ status' = "crashed"
    /\ UNCHANGED <<inputs, cur, queried, presented, regions, harnessVars>>

\* for x in items: yield from get_aws_session(...)   (both wildcard branches)
\* The frame ends when its list is exhausted.
LoopStep ==
    /\ Running
    /\ Top.at = "loop"
    /\ IF Top.i <= Len(Top.items)
       THEN gen' = ReplaceTop([Top EXCEPT !.i = @ + 1])
                   \o <<IF Top.profile_name = ALL
                        THEN Frame(Top.items[Top.i], Top.region_name)
                        ELSE Frame(Top.profile_name, Top.items[Top.i])>>
       ELSE gen' = Pop
    /\ UNCHANGED <<inputs, status, cur, queried, presented, profiles, regions, harnessVars>>

\* elif region_name == "all": session in us-east-1, describe_regions, loop.
\* Everything is inside try/except Exception: a failure (RecursionError in a
\* frame nested too deep included) yields None, which aws_search skips, and
\* the frame ends.
ListRegions ==
    /\ Running
    /\ Top.at = "start"
    /\ Top.profile_name # ALL
    /\ Top.region_name = ALL
    /\ \/ /\ ~SessionRaises(Top.profile_name)
          /\ ~TooDeep
          /\ \E names \in RegionLists :
                /\ Len(names) <= MaxContexts - Yielded
                /\ gen' = ReplaceTop([Top EXCEPT !.at = "loop", !.items = names])
                /\ regions' = [regions EXCEPT ![Top.profile_name] = Lookup("ok", names)]
       \/ /\ gen' = Pop
          /\ regions' = [regions EXCEPT ![Top.profile_name] =
                            Lookup(IF TooDeep THEN "RecursionError" ELSE "failed", <<>>)]
    /\ UNCHANGED <<inputs, status, cur, queried, presented, profiles, harnessVars>>

\* Mutant: a session that cannot be constructed ends the whole enumeration.
Leaf_FailureEndsEnumeration ==
    /\ Running
    /\ Top.at = "start"
    /\ Top.profile_name # ALL
    /\ Top.region_name # ALL
    /\ IF SessionRaises(Top.profile_name)
       THEN /\ gen' = <<>>
            /\ status' = "next"
            /\ cur' = cur
       ELSE /\ gen' = Pop
            /\ status' = "body"
            /\ cur' = Session(Top.profile_name, Top.region_name)
    /\ UNCHANGED <<inputs, queried, presented, profiles, regions, harnessVars>>

\* else: try: yield boto3.Session(...) except Exception: yield None
\* The frame ends after its single yield.
Leaf ==
    /\ Running
    /\ Top.at = "start"
    /\ Top.profile_name # ALL
    /\ Top.region_name # ALL
    /\ gen' = Pop
    /\ IF SessionRaises(Top.profile_name) \/ TooDeep
       THEN /\ status' = "next"
            /\ cur' = cur
       ELSE /\ status' = "body"
            /\ cur' = Session(Top.profile_name, Top.region_name)
    /\ UNCHANGED <<inputs, queried, presented, profiles, regions, harnessVars>>

\* The generator is exhausted: the for-loop of aws_search ends.
Finish ==
    /\ status = "next"
    /\ gen = <<>>
    /\ status' = "done"
    /\ UNCHANGED <<inputs, gen, cur, queried, presented, profiles, regions, harnessVars>>

(***************************************************************************)
(* The provider's answer to one describe call                               *)
(***************************************************************************)
Responded(r) == [kind |-> "response", response |-> r]

\* botocore ClientError with e.response["Error"]["Code"] = code
ClientError(code) == [kind |-> "ClientError", code |-> code]

\* any other exception (no credentials, endpoint unreachable, ...)
OtherException == [kind |-> "Exception"]

\* What a query function returns: a response, or Python's None.
Some(r) == [some |-> TRUE, val |-> r]

Nothing == [some |-> FALSE]

\* Mutant: "not found" handled like every other error.
get_ec2_instances_by_ids_NotFoundFails(answer) ==
    IF answer.kind = "response" THEN Some(answer.response) ELSE Nothing

\* get_ec2_instances_by_ids: the one query that tells "not found" apart.
get_ec2_instances_by_ids(answer) ==
    IF answer.kind = "response" THEN Some(answer.response)
    ELSE IF answer.kind = "ClientError"
         THEN IF answer.code = "InvalidInstanceID.NotFound"
              THEN Some([Reservations |-> <<>>])
              ELSE Nothing
         ELSE Nothing

\* try: return client.describe_x(...)  except Exception: return None
\* The body shared by get_ec2_instances_by_tags, _by_private_ips,
\* _by_public_ips, get_amis, get_enis_by_private_ips, get_enis_by_public_ips.
DescribeOrNone(answer) ==
    IF answer.kind = "response" THEN Some(answer.response) ELSE Nothing

get_ec2_instances_by_tags(answer) == DescribeOrNone(answer)

get_ec2_instances_by_private_ips(answer) == DescribeOrNone(answer)

get_ec2_instances_by_public_ips(answer) == DescribeOrNone(answer)

get_amis(answer) == DescribeOrNone(answer)

get_enis_by_private_ips(answer) == DescribeOrNone(answer)

get_enis_by_public_ips(answer) == DescribeOrNone(answer)

get_elbs_by_arns(answer) ==
    IF answer.kind = "response" THEN Some(answer.response) ELSE Nothing

get_elbs_by_names(answer) ==
    IF answer.kind = "response" THEN Some(answer.response) ELSE Nothing

\* The requested DNS names of a balancers-by-dns-name run.
RequestedDnsNames == {"a.elb.amazonaws.com"}

\* describe_load_balancers() with no filter, then elb["DNSName"] in dns_names.
\* A listed balancer without DNSName is a KeyError inside the try: None.
get_elbs_by_dns_names(answer, dns_names) ==
    IF answer.kind # "response" THEN Nothing
    ELSE IF "LoadBalancers" \notin DOMAIN answer.response THEN Nothing
    ELSE LET elbs == answer.response.LoadBalancers
             HasDns(elb) == "DNSName" \in DOMAIN elb
             Wanted(elb) == elb.DNSName \in dns_names
         IN  IF \E k \in DOMAIN elbs : ~HasDns(elbs[k]) THEN Nothing
             ELSE Some([LoadBalancers |-> SelectSeq(elbs, Wanted)])

Funcs == {"get_ec2_instances_by_ids", "get_ec2_instances_by_tags",
          "get_ec2_instances_by_private_ips", "get_ec2_instances_by_public_ips",
          "get_amis", "get_enis_by_private_ips", "get_enis_by_public_ips",
          "get_elbs_by_arns", "get_elbs_by_names", "get_elbs_by_dns_names"}

\* response = func(session, **kwargs)
Call(f, answer) ==
    CASE f = "get_ec2_instances_by_ids" -> get_ec2_instances_by_ids(answer)
      [] f = "get_ec2_instances_by_tags" -> get_ec2_instances_by_tags(answer)
      [] f = "get_ec2_instances_by_private_ips" -> get_ec2_instances_by_private_ips(answer)
      [] f = "get_ec2_instances_by_public_ips" -> get_ec2_instances_by_public_ips(answer)
      [] f = "get_amis" -> get_amis(answer)
      [] f = "get_enis_by_private_ips" -> get_enis_by_private_ips(answer)
      [] f = "get_enis_by_public_ips" -> get_enis_by_public_ips(answer)
      [] f = "get_elbs_by_arns" -> get_elbs_by_arns(answer)
      [] f = "get_elbs_by_names" -> get_elbs_by_names(answer)
      [] f = "get_elbs_by_dns_names" -> get_elbs_by_dns_names(answer, kwargs.dns_names)

(***************************************************************************)
(* sort_data: pandas DataFrame.sort_values(by=order, ascending=ascending)   *)
(* A record is the OrderedDict the deserializer builds: a sequence of       *)
(* <<key, value>> pairs. Values are strings or None.                        *)
(***************************************************************************)

\* Python orders strings by code point; the strings of the model, in order.
StrOrder == <<"2022-03-01", "2023-01-01", "2024-06-01", "a", "available", "b",
              "c", "i-1", "i-2", "in-use", "interface", "lb-a", "lb-b",
              "lb-c", "lb-gw", "nat_gateway", "pending", "running", "stopped">>

Rank(v) == CHOOSE k \in DOMAIN StrOrder : StrOrder[k] = v

Field(rec, key) == rec[CHOOSE j \in DOMAIN rec : rec[j][1] = key][2]

\* pandas isna: None is a missing value.
IsNull(v) == v = None

\* Mutant: every key sorted ascending, whatever the direction asked for.
CompareKey_IgnoresDirection(a, b, asc) ==
    IF IsNull(a) /\ IsNull(b) THEN 0
    ELSE IF IsNull(a) THEN 1
    ELSE IF IsNull(b) THEN -1
    ELSE IF Rank(a) = Rank(b) THEN 0
    ELSE IF Rank(a) < Rank(b) THEN -1 ELSE 1

\* Mutant: a missing value ordered as the largest value, so that a descending
\* key puts it first.
CompareKey_NullIsLargest(a, b, asc) ==
    IF IsNull(a) /\ IsNull(b) THEN 0
    ELSE IF IsNull(a) THEN (IF asc THEN 1 ELSE -1)
    ELSE IF IsNull(b) THEN (IF asc THEN -1 ELSE 1)
    ELSE IF Rank(a) = Rank(b) THEN 0
    ELSE IF (Rank(a) < Rank(b)) = asc THEN -1 ELSE 1

\* na_position="last" is the default, and sort_data does not pass another:
\* a missing value is placed after every present one, whatever the direction.
\* -1, 0, 1: a before b, tie, a after b, on one key.
CompareKey(a, b, asc) ==
    IF IsNull(a) /\ IsNull(b) THEN 0
    ELSE IF IsNull(a) THEN 1
    ELSE IF IsNull(b) THEN -1
    ELSE IF Rank(a) = Rank(b) THEN 0
    ELSE IF (Rank(a) < Rank(b)) = asc THEN -1 ELSE 1

\* The first key that tells the two records apart decides.
RECURSIVE Compare(_, _, _, _)
Compare(ra, rb, order, ascending) ==
    IF order = <<>> THEN 0
    ELSE LET c == CompareKey(Field(ra, Head(order)), Field(rb, Head(order)),
                             Head(ascending))
         IN  IF c # 0 THEN c
             ELSE Compare(ra, rb, Tail(order), Tail(ascending))

Perms(n) == {p \in [1..n -> 1..n] : \A a, b \in 1..n : p[a] = p[b] => a = b}

\* by a single column sort_values uses kind="quicksort", which is not stable:
\* records that tie may come out in any order. By several columns it sorts
\* with a lexsort, which is stable.
sort_data(data, order, ascending) ==
    IF Len(data) < 1 THEN {data}
    ELSE LET n == Len(data)
             Ordered(p) ==
                 \A k \in 1..(n - 1) :
                    LET c == Compare(data[p[k]], data[p[k + 1]], order, ascending)
                    IN  \/ c < 0
                        \/ c = 0 /\ (Len(order) > 1 => p[k] < p[k + 1])
         IN  {[k \in 1..n |-> data[p[k]]] : p \in {q \in Perms(n) : Ordered(q)}}

(***************************************************************************)
(* The normalizers                                                          *)
(***************************************************************************)

\* dict.get(key, None)
Get(d, key) == IF key \in DOMAIN d THEN d[key] ELSE None

find_tag_name(instance) ==
    IF "Tags" \in DOMAIN instance
    THEN LET IsName(tag) == tag.Key = "Name"
             named == SelectSeq(instance.Tags, IsName)
         IN  IF named # <<>> THEN Head(named).Value ELSE None
    ELSE None

\* What a normalizer does: returns rows, returns None, or raises.
Rows(rows) == [kind |-> "rows", rows |-> rows]

ReturnsNone == [kind |-> "none"]

Raises == [kind |-> "raise"]

RECURSIVE Flatten(_)
Flatten(reservations) ==
    IF reservations = <<>> THEN <<>>
    ELSE Head(reservations).Instances \o Flatten(Tail(reservations))

\* instance.get("State", None).get("Name") and
\* instance.get("Placement", None).get("AvailabilityZone", None):
\* with the sub-object absent the first get returns None, and None has no
\* get: AttributeError.
Ec2Raises(instance) ==
    "State" \notin DOMAIN instance \/ "Placement" \notin DOMAIN instance

Ec2Record(instance) ==
    << <<"InstanceState", Get(instance.State, "Name")>>,
       <<"InstanceName", find_tag_name(instance)>>,
       <<"InstanceId", Get(instance, "InstanceId")>>,
       <<"InstanceType", Get(instance, "InstanceType")>>,
       <<"AvailabilityZone", Get(instance.Placement, "AvailabilityZone")>>,
       <<"PrivateIpAddress", Get(instance, "PrivateIpAddress")>>,
       <<"PublicIpAddress", Get(instance, "PublicIpAddress")>> >>

deserialize_ec2_instances(response) ==
    LET instances == Flatten(response.Reservations)
    IN  IF \E k \in DOMAIN instances : Ec2Raises(instances[k]) THEN {Raises}
        ELSE {Rows(d) : d \in sort_data([k \in DOMAIN instances |-> Ec2Record(instances[k])],
                                        <<"InstanceState", "InstanceName">>,
                                        <<TRUE, TRUE>>)}

\* eni.get("Association", None).get("PublicIp", None) and
\* eni.get("Attachment", None).get("InstanceId", None)
EniRaises(eni) ==
    "Association" \notin DOMAIN eni \/ "Attachment" \notin DOMAIN eni

EniRecord(eni) ==
    << <<"PrivateIp", Get(eni, "PrivateIpAddress")>>,
       <<"PublicIp", Get(eni.Association, "PublicIp")>>,
       <<"NetworkInterfaceId", Get(eni, "NetworkInterfaceId")>>,
       <<"InterfaceType", Get(eni, "InterfaceType")>>,
       <<"InstanceId", Get(eni.Attachment, "InstanceId")>>,
       <<"AvailabilityZone", Get(eni, "AvailabilityZone")>>,
       <<"Status", Get(eni, "Status")>> >>

deserialize_enis(response) ==
    LET enis == response.NetworkInterfaces
    IN  IF \E k \in DOMAIN enis : EniRaises(enis[k]) THEN {Raises}
        ELSE {Rows(d) : d \in sort_data([k \in DOMAIN enis |-> EniRecord(enis[k])],
                                        <<"Status", "InterfaceType", "InstanceId">>,
                                        <<TRUE, TRUE, TRUE>>)}

ElbRecord(elb) ==
    << <<"LoadBalancerName", Get(elb, "LoadBalancerName")>>,
       <<"DNSName", Get(elb, "DNSName")>>,
       <<"Type", Get(elb, "Type")>>,
       <<"Scheme", Get(elb, "Scheme")>>,
       <<"LoadBalancerArn", Get(elb, "LoadBalancerArn")>> >>

deserialize_elbs(response) ==
    LET elbs == response.LoadBalancers
    IN  {Rows(d) : d \in sort_data([k \in DOMAIN elbs |-> ElbRecord(elbs[k])],
                                   <<"LoadBalancerName">>, <<TRUE>>)}

ImageRecord(image) ==
    << <<"ImageId", Get(image, "ImageId")>>,
       <<"Name", Get(image, "Name")>>,
       <<"CreationDate", Get(image, "CreationDate")>> >>

deserialize_images(response) ==
    LET images == response.Images
    IN  {Rows(d) : d \in sort_data([k \in DOMAIN images |-> ImageRecord(images[k])],
                                   <<"CreationDate">>, <<FALSE>>)}

\* The set of things deserialize(response) can do.
deserialize(response) ==
    IF "Reservations" \in DOMAIN response THEN deserialize_ec2_instances(response)
    ELSE IF "NetworkInterfaces" \in DOMAIN response THEN deserialize_enis(response)
    ELSE IF "LoadBalancers" \in DOMAIN response THEN deserialize_elbs(response)
    ELSE IF "Images" \in DOMAIN response THEN deserialize_images(response)
    ELSE {ReturnsNone}

(***************************************************************************)
(* What the provider can answer in one context                              *)
(***************************************************************************)
InstStoppedB ==
    [InstanceId |-> "i-1", InstanceType |-> "t3.micro",
     State |-> [Name |-> "stopped"], Placement |-> [AvailabilityZone |-> "az-a"],
     Tags |-> <<[Key |-> "Name", Value |-> "b"]>>, PrivateIpAddress |-> "10.0.0.1"]

InstRunningA ==
    [InstanceId |-> "i-2", InstanceType |-> "t3.micro",
     State |-> [Name |-> "running"], Placement |-> [AvailabilityZone |-> "az-a"],
     Tags |-> <<[Key |-> "Name", Value |-> "a"]>>, PrivateIpAddress |-> "10.0.0.2",
     PublicIpAddress |-> "3.0.0.2"]

InstNoPlacement ==
    [InstanceId |-> "i-1", InstanceType |-> "t3.micro",
     State |-> [Name |-> "running"], PrivateIpAddress |-> "10.0.0.1"]

EniInUse ==
    [NetworkInterfaceId |-> "eni-1", PrivateIpAddress |-> "10.0.0.1",
     InterfaceType |-> "interface", AvailabilityZone |-> "az-a", Status |-> "in-use",
     Association |-> [PublicIp |-> "3.0.0.1"], Attachment |-> [InstanceId |-> "i-1"]]

EniAvailable ==
    [NetworkInterfaceId |-> "eni-2", PrivateIpAddress |-> "10.0.0.2",
     InterfaceType |-> "interface", AvailabilityZone |-> "az-a", Status |-> "available",
     Association |-> [PublicIp |-> "3.0.0.2"], Attachment |-> [AttachmentId |-> "att-2"]]

\* An interface with no public address has no Association.
EniNoAssociation ==
    [NetworkInterfaceId |-> "eni-3", PrivateIpAddress |-> "10.0.0.3",
     InterfaceType |-> "interface", AvailabilityZone |-> "az-a", Status |-> "in-use",
     Attachment |-> [InstanceId |-> "i-2"]]

ElbB ==
    [LoadBalancerName |-> "lb-b", DNSName |-> "b.elb.amazonaws.com",
     Type |-> "application", Scheme |-> "internal", LoadBalancerArn |-> "arn-b"]

ElbA ==
    [LoadBalancerName |-> "lb-a", DNSName |-> "a.elb.amazonaws.com",
     Type |-> "network", Scheme |-> "internet-facing", LoadBalancerArn |-> "arn-a"]

Image2023 == [ImageId |-> "ami-1", Name |-> "img", CreationDate |-> "2023-01-01"]

Image2024 == [ImageId |-> "ami-2", Name |-> "img", CreationDate |-> "2024-06-01"]

\* A response that holds none of the four collections.
Unrecognized == [ResponseMetadata |-> "200"]

InstanceFuncs == {"get_ec2_instances_by_ids", "get_ec2_instances_by_tags",
                  "get_ec2_instances_by_private_ips", "get_ec2_instances_by_public_ips"}

EniFuncs == {"get_enis_by_private_ips", "get_enis_by_public_ips"}

ElbFuncs == {"get_elbs_by_arns", "get_elbs_by_names", "get_elbs_by_dns_names"}

SampleResponses(f) ==
    {Unrecognized} \cup
    (IF f \in InstanceFuncs
     THEN {[Reservations |-> <<>>],
           [Reservations |-> <<[Instances |-> <<InstStoppedB>>],
                               [Instances |-> <<InstRunningA>>]>>],
           [Reservations |-> <<[Instances |-> <<InstNoPlacement>>]>>]}
     ELSE IF f \in EniFuncs
     THEN {[NetworkInterfaces |-> <<>>],
           [NetworkInterfaces |-> <<EniInUse, EniAvailable>>],
           [NetworkInterfaces |-> <<EniNoAssociation>>]}
     ELSE IF f \in ElbFuncs
     THEN {[LoadBalancers |-> <<>>], [LoadBalancers |-> <<ElbB, ElbA>>]}
     ELSE {[Images |-> <<>>], [Images |-> <<Image2023, Image2024>>]})

\* The error codes the provider raises for the call f makes: an unknown
\* identifier is an error only where identifiers are passed.
ErrorCodes(f) ==
    {"UnauthorizedOperation"} \cup
    (IF f = "get_ec2_instances_by_ids" THEN {"InvalidInstanceID.NotFound"}
     ELSE IF f \in {"get_elbs_by_arns", "get_elbs_by_names"}
     THEN {"LoadBalancerNotFound"}
     ELSE {})

Answers(f) ==
    {Responded(r) : r \in SampleResponses(f)}
    \cup {ClientError(c) : c \in ErrorCodes(f)}
    \cup {OtherException}

(***************************************************************************)
(* aws_search: the body of the for-loop, for a session that is not None     *)
(***************************************************************************)

\* print_data prints for both output formats; what it was handed is kept.
print_data(table_data, profile, region, out) ==
    IF out \in {"table", "json"}
    THEN <<[profile |-> profile, region |-> region, table_data |-> table_data]>>
    ELSE <<>>

Queried(answer, returned) ==
    Append(queried, [session |-> cur, answer |-> answer, returned |-> returned])

\* client = session.client(...) is the first line of every query function,
\* before its try: when it raises, nothing in aws_search catches it.
BodyClientRaises ==
    /\ status = "body"
    /\ queried' = Queried([kind |-> "none"], "raised")
    /\ status' = "crashed"
    /\ UNCHANGED <<inputs, gen, cur, presented, profiles, regions, harnessVars>>

\* response is None: nothing is printed, the loop goes on.
BodyQueryFailed ==
    /\ status = "body"
    /\ \E answer \in Answers(func) :
          /\ Call(func, answer) = Nothing
          /\ queried' = Queried(answer, "None")
    /\ status' = "next"
    /\ UNCHANGED <<inputs, gen, cur, presented, profiles, regions, harnessVars>>

\* deserialize(response) raises: aws_search has no handler.
BodyNormalizeRaises ==
    /\ status = "body"
    /\ \E answer \in Answers(func) :
          /\ Call(func, answer) # Nothing
          /\ Raises \in deserialize(Call(func, answer).val)
          /\ queried' = Queried(answer, "response")
    /\ status' = "crashed"
    /\ UNCHANGED <<inputs, gen, cur, presented, profiles, regions, harnessVars>>

\* table_data = deserialize(response); print_data(table_data, ...)
BodyPresented ==
    /\ status = "body"
    /\ \E answer \in Answers(func) :
          /\ Call(func, answer) # Nothing
          /\ \E table_data \in deserialize(Call(func, answer).val) \ {Raises} :
                presented' = presented \o print_data(table_data, cur.profile_name,
                                                     cur.region_name, output)
          /\ queried' = Queried(answer, "response")
    /\ status' = "next"
    /\ UNCHANGED <<inputs, gen, cur, profiles, regions, harnessVars>>

NoSession == [profile_name |-> None, region_name |-> None]

\* The start of a run of aws_search, whatever the environment.
Start ==
    /\ profile_name \in ProfileNames \cup {ALL}
    /\ region_name \in RegionNames \cup {ALL}
    /\ output \in {"table", "json"}
    /\ func \in Funcs
    /\ kwargs = [dns_names |-> RequestedDnsNames]
    /\ badProfiles \in SUBSET ProfileNames
    /\ gen = <<Frame(profile_name, region_name)>>
    /\ status = "next"
    /\ cur = NoSession
    /\ queried = <<>>
    /\ presented = <<>>
    /\ profiles = Lookup("none", <<>>)
    /\ regions = [p \in ProfileNames |-> Lookup("none", <<>>)]
    /\ nresponse = Unrecognized
    /\ nresult = <<>>

\* No profile and no region is named "all".
Init == Start /\ allNamed = FALSE

Next ==
    \/ ListProfiles
    \/ LoopStep
    \/ ListRegions
    \/ Leaf
    \/ Finish
    \/ BodyClientRaises
    \/ BodyQueryFailed
    \/ BodyNormalizeRaises
    \/ BodyPresented

Spec == Init /\ [][Next]_vars

(***************************************************************************)
(* get_aws_session on its own, where a profile and a region named "all"     *)
(* exist: the loop takes each session and does nothing with it.             *)
(***************************************************************************)
InitEnum ==
    /\ Start
    /\ allNamed = TRUE
    /\ output = "table"
    /\ func = "get_amis"

\* for session in get_aws_session(profile_name, region_name): the next item
\* is asked for as soon as one is handed over.
Take ==
    /\ status = "body"
    /\ queried' = Queried([kind |-> "none"], "taken")
    /\ status' = "next"
    /\ UNCHANGED <<inputs, gen, cur, presented, profiles, regions, harnessVars>>

NextEnum ==
    \/ ListProfiles
    \/ LoopStep
    \/ ListRegions
    \/ Leaf
    \/ Finish
    \/ Take

SpecEnum == InitEnum /\ [][NextEnum]_vars

(***************************************************************************)
(* The normalizers and the sorter on their own: deserialize applied to a    *)
(* raw response of at most MaxLeaves resources.                             *)
(***************************************************************************)

\* A field the provider left out of the payload.
ABSENT == "<absent>"

\* The record with the fields of r whose value is not ABSENT.
Present(r) == [k \in {f \in DOMAIN r : r[f] # ABSENT} |-> r[k]]

\* state: ABSENT for an instance without State, None for a State without Name.
\* name: ABSENT for an instance without Tags, None for Tags without a Name tag.
Instance(state, name, placed) ==
    [k \in {"InstanceId", "InstanceType", "PrivateIpAddress"}
           \cup (IF state = ABSENT THEN {} ELSE {"State"})
           \cup (IF name = ABSENT THEN {} ELSE {"Tags"})
           \cup (IF placed THEN {"Placement"} ELSE {})
           \cup (IF name = "a" THEN {"PublicIpAddress"} ELSE {}) |->
        CASE k = "InstanceId" -> "i-1"
          [] k = "InstanceType" -> "t3.micro"
          [] k = "PrivateIpAddress" -> "10.0.0.1"
          [] k = "PublicIpAddress" -> "3.0.0.1"
          [] k = "State" -> IF state = None THEN [Code |-> "16"]
                            ELSE [Code |-> "16", Name |-> state]
          [] k = "Tags" -> IF name = None THEN <<[Key |-> "env", Value |-> "x"]>>
                           ELSE <<[Key |-> "env", Value |-> "x"],
                                  [Key |-> "Name", Value |-> name]>>
          [] k = "Placement" -> [AvailabilityZone |-> "az-a"]]

SampleInstances ==
    {Instance(st, nm, TRUE) : st \in {"running", "stopped"}, nm \in {"a", "b"}}
    \cup {Instance(None, "a", TRUE), Instance("stopped", None, TRUE),
          Instance("running", ABSENT, TRUE),
          Instance(ABSENT, "a", TRUE), Instance("running", "b", FALSE)}

\* instance: ABSENT for an interface without Attachment, None for an
\* Attachment without InstanceId. associated: whether Association is there.
Eni(st, type, instance, associated) ==
    [k \in {"NetworkInterfaceId", "PrivateIpAddress", "AvailabilityZone"}
           \cup (IF st = None THEN {} ELSE {"Status"})
           \cup (IF type = None THEN {} ELSE {"InterfaceType"})
           \cup (IF instance = ABSENT THEN {} ELSE {"Attachment"})
           \cup (IF associated THEN {"Association"} ELSE {}) |->
        CASE k = "NetworkInterfaceId" -> "eni-1"
          [] k = "PrivateIpAddress" -> "10.0.0.1"
          [] k = "AvailabilityZone" -> "az-a"
          [] k = "Status" -> st
          [] k = "InterfaceType" -> type
          [] k = "Attachment" -> IF instance = None THEN [AttachmentId |-> "att-1"]
                                 ELSE [AttachmentId |-> "att-1", InstanceId |-> instance]
          [] k = "Association" -> [PublicIp |-> "3.0.0.1"]]

SampleEnis ==
    {Eni(st, ty, "i-1", TRUE) : st \in {"available", "in-use"},
                                ty \in {"interface", "nat_gateway"}}
    \cup {Eni("in-use", "interface", "i-2", TRUE),
          Eni(None, "interface", "i-1", TRUE), Eni("in-use", None, "i-1", TRUE),
          Eni("in-use", "interface", None, TRUE),
          Eni("in-use", "interface", "i-1", FALSE),
          Eni("available", "interface", ABSENT, TRUE)}

SampleElbs ==
    {Present([LoadBalancerName |-> nm, DNSName |-> dns, Type |-> "application",
              Scheme |-> "internal", LoadBalancerArn |-> "arn-1"]) :
        nm \in {"lb-a", "lb-b", ABSENT},
        dns \in {"a.elb.amazonaws.com", "b.elb.amazonaws.com"}}

SampleImages ==
    {Present([ImageId |-> id, Name |-> "img", CreationDate |-> date]) :
        id \in {"ami-1", "ami-2"},
        date \in {"2022-03-01", "2023-01-01", "2024-06-01", ABSENT}}

RECURSIVE SeqsUpTo(_, _)
SeqsUpTo(S, n) ==
    IF n = 0 THEN {<<>>}
    ELSE LET shorter == SeqsUpTo(S, n - 1)
         IN  shorter \cup {Append(t, x) : t \in {u \in shorter : Len(u) = n - 1}, x \in S}

\* Instances come wrapped in reservations: all in one, or one in each.
Reservations(instances) ==
    {<<[Instances |-> instances]>>,
     [k \in DOMAIN instances |-> [Instances |-> <<instances[k]>>]]}

RawResponses ==
    {Unrecognized}
    \cup UNION {{[Reservations |-> rs] : rs \in Reservations(l)} :
                  l \in SeqsUpTo(SampleInstances, MaxLeaves)}
    \cup {[NetworkInterfaces |-> l] : l \in SeqsUpTo(SampleEnis, MaxLeaves)}
    \cup {[LoadBalancers |-> l] : l \in SeqsUpTo(SampleElbs, MaxLeaves)}
    \cup {[Images |-> l] : l \in SeqsUpTo(SampleImages, MaxLeaves)}

Idle ==
    /\ profile_name = "default"
    /\ region_name = "eu-central-1"
    /\ output = "table"
    /\ func = "get_amis"
    /\ badProfiles = {}
    /\ allNamed = FALSE
    /\ gen = <<>>
    /\ status = "done"
    /\ cur = NoSession
    /\ queried = <<>>
    /\ presented = <<>>
    /\ profiles = Lookup("none", <<>>)
    /\ regions = [p \in ProfileNames |-> Lookup("none", <<>>)]

InitNorm ==
    /\ Idle
    /\ kwargs = [dns_names |-> RequestedDnsNames]
    /\ nresponse \in RawResponses
    /\ nresult = <<>>

\* table_data = deserialize(response)
Normalize ==
    /\ nresult = <<>>
    /\ \E outcome \in deserialize(nresponse) : nresult' = <<outcome>>
    /\ UNCHANGED <<nresponse, pipelineVars>>

NextNorm == Normalize

SpecNorm == InitNorm /\ [][NextNorm]_vars

(***************************************************************************)
(* get_elbs_by_dns_names and deserialize on their own: one context whose    *)
(* balancers describe_load_balancers() lists, and a set of requested names. *)
(***************************************************************************)
ElbC ==
    [LoadBalancerName |-> "lb-c", DNSName |-> "c.elb.amazonaws.com",
     Type |-> "application", Scheme |-> "internal", LoadBalancerArn |-> "arn-c"]

\* A gateway balancer is listed without DNSName and Scheme.
ElbGateway ==
    [LoadBalancerName |-> "lb-gw", Type |-> "gateway", LoadBalancerArn |-> "arn-gw"]

ListedElbs == {ElbA, ElbB, ElbC, ElbGateway}

\* The names --dns-names can ask for: two of listed balancers, one of none.
DnsNames == {"a.elb.amazonaws.com", "b.elb.amazonaws.com", "x.elb.amazonaws.com"}

InitDns ==
    /\ Idle
    /\ kwargs \in {[dns_names |-> d] : d \in SUBSET DnsNames \ {{}}}
    /\ nresponse \in {[LoadBalancers |-> l] : l \in ListsOver(ListedElbs, MaxLeaves)}
    /\ nresult = <<>>

\* What aws_search has when func returned None: nothing to normalize.
QueryFailed == [kind |-> "failed"]

\* response = func(session, **kwargs)
\* if response is not None: table_data = deserialize(response)
SearchByDnsNames ==
    /\ nresult = <<>>
    /\ LET response == get_elbs_by_dns_names(Responded(nresponse), kwargs.dns_names)
       IN  IF response = Nothing
           THEN nresult' = <<QueryFailed>>
           ELSE \E table_data \in deserialize(response.val) :
                    nresult' = <<table_data>>
    /\ UNCHANGED <<nresponse, pipelineVars>>

NextDns == SearchByDnsNames

SpecDns == InitDns /\ [][NextDns]_vars

(***************************************************************************)
(* Properties: the pipeline                                                 *)
(***************************************************************************)
Last(q) == q[Len(q)]

\* The presenter invocations made for a session.
EntriesFor(session) ==
    {k \in DOMAIN presented : /\ presented[k].profile = session.profile_name
                              /\ presented[k].region = session.region_name}

\* The sessions the generator has handed to the loop so far.
Produced ==
    [k \in DOMAIN queried |-> queried[k].session]
    \o (IF status = "body" THEN <<cur>> ELSE <<>>)

IsPrefix(a, b) == Len(a) <= Len(b) /\ a = SubSeq(b, 1, Len(a))

\* A frame inside a region fan-out that still has regions to take.
PendingRegions ==
    \E d \in DOMAIN gen : /\ gen[d].at = "loop"
                          /\ gen[d].profile_name # ALL
                          /\ gen[d].i <= Len(gen[d].items)

\* C1: a context whose query returned no response is not presented, and
\* every later context of the enumeration is still queried and, when its
\* query returned a response, presented.
C1_FailureIsolation ==
    \A i \in DOMAIN queried :
        queried[i].returned = "None" =>
            /\ EntriesFor(queried[i].session) = {}
            /\ \A j \in DOMAIN queried :
                  (j > i /\ queried[j].returned = "response")
                      => EntriesFor(queried[j].session) # {}
            /\ ~(status = "crashed" /\ PendingRegions)

\* C3: no failure while handling one context's response (creating the
\* client, normalizing, presenting) ends the run.
C3_NoPerContextAbort ==
    ~(/\ status = "crashed"
      /\ queried # <<>>
      /\ Last(queried).returned \in {"response", "raised"})

\* The profiles of a list whose session can be constructed, in list order.
Constructible(names) ==
    LET Good(p) == p \notin badProfiles IN SelectSeq(names, Good)

\* C4: with profile "all" and a concrete region, the sessions handed to the
\* loop are, in profile-list order, one per profile whose session can be
\* constructed, and none for a profile whose construction fails.
C4_FanOut ==
    (profile_name = ALL /\ region_name # ALL /\ profiles.state = "ok") =>
        LET expected == [k \in DOMAIN Constructible(profiles.names) |->
                            Session(Constructible(profiles.names)[k], region_name)]
        IN  /\ IsPrefix(Produced, expected)
            /\ status = "done" => Produced = expected

\* C4 witness: of two listed profiles the first fails to construct, and the
\* finished run was handed exactly the second.
C4_Witness ==
    /\ status = "done"
    /\ profile_name = ALL
    /\ region_name = "eu-central-1"
    /\ profiles = Lookup("ok", <<"default", "dev">>)
    /\ badProfiles = {"default"}
    /\ Produced = <<Session("dev", "eu-central-1")>>

\* C5: a discovery lookup that fails does not end the run.
C5_DiscoveryNonFatal ==
    /\ profiles.state = "failed" => status # "crashed"
    /\ \A p \in ProfileNames :
          (regions[p].state = "failed" /\ status = "crashed")
              => Last(queried).returned \in {"response", "raised"}

NotFoundInstance == ClientError("InvalidInstanceID.NotFound")

\* C6: for instances-by-id, a "not found" error makes the query return an
\* empty response and the context is presented once, with zero records and
\* its own profile and region; any other error makes the query return None
\* and the context is not presented.
C6_NotFoundIsEmpty ==
    func = "get_ec2_instances_by_ids" =>
        \A i \in DOMAIN queried :
            LET q == queried[i] IN
            /\ q.answer = NotFoundInstance =>
                  /\ q.returned = "response"
                  /\ Cardinality(EntriesFor(q.session)) = 1
                  /\ \A k \in EntriesFor(q.session) :
                        presented[k].table_data = Rows(<<>>)
            /\ (q.answer.kind \in {"ClientError", "Exception"}
                /\ q.answer # NotFoundInstance) =>
                  /\ q.returned = "None"
                  /\ EntriesFor(q.session) = {}

\* C6 witness: an instances-by-id run in which one context answered
\* "not found" and was presented, and another failed otherwise.
C6_Witness ==
    /\ func = "get_ec2_instances_by_ids"
    /\ \E i, j \in DOMAIN queried :
          /\ queried[i].answer = NotFoundInstance
          /\ EntriesFor(queried[i].session) # {}
          /\ queried[j].answer = ClientError("UnauthorizedOperation")

\* C7: for balancers-by-arn and balancers-by-name, a "not found" error makes
\* the query return an empty response, and the context is presented with an
\* empty record set.
C7_BalancerNotFoundIsEmpty ==
    func \in {"get_elbs_by_arns", "get_elbs_by_names"} =>
        \A i \in DOMAIN queried :
            queried[i].answer = ClientError("LoadBalancerNotFound") =>
                /\ queried[i].returned = "response"
                /\ \E k \in EntriesFor(queried[i].session) :
                      presented[k].table_data = Rows(<<>>)

\* The entries of queried whose query returned a response, in order.
Answered ==
    LET Got(q) == q.returned = "response" IN SelectSeq(queried, Got)

\* C8: the presenter invocations are, in order, the contexts whose query
\* returned a response: one each, with that context's profile and region and
\* what normalizing that context's response gives.
C8_OnePresentationPerContext ==
    /\ Len(presented) = Len(Answered)
    /\ \A k \in DOMAIN presented :
          /\ k \in DOMAIN Answered
          /\ presented[k].profile = Answered[k].session.profile_name
          /\ presented[k].region = Answered[k].session.region_name
          /\ presented[k].table_data
                \in deserialize(Call(func, Answered[k].answer).val)

(***************************************************************************)
(* Properties: the normalizers and the sorter                               *)
(***************************************************************************)
Kind(response) ==
    IF "Reservations" \in DOMAIN response THEN "instances"
    ELSE IF "NetworkInterfaces" \in DOMAIN response THEN "interfaces"
    ELSE IF "LoadBalancers" \in DOMAIN response THEN "balancers"
    ELSE IF "Images" \in DOMAIN response THEN "images"
    ELSE "unrecognized"

\* The leaf resources of a response, in payload order.
Leaves(response) ==
    CASE Kind(response) = "instances" -> Flatten(response.Reservations)
      [] Kind(response) = "interfaces" -> response.NetworkInterfaces
      [] Kind(response) = "balancers" -> response.LoadBalancers
      [] Kind(response) = "images" -> response.Images
      [] OTHER -> <<>>

\* The fixed field sequence of each kind.
FieldsOf(kind) ==
    CASE kind = "instances" ->
            <<"InstanceState", "InstanceName", "InstanceId", "InstanceType",
              "AvailabilityZone", "PrivateIpAddress", "PublicIpAddress">>
      [] kind = "interfaces" ->
            <<"PrivateIp", "PublicIp", "NetworkInterfaceId", "InterfaceType",
              "InstanceId", "AvailabilityZone", "Status">>
      [] kind = "balancers" ->
            <<"LoadBalancerName", "DNSName", "Type", "Scheme", "LoadBalancerArn">>
      [] kind = "images" -> <<"ImageId", "Name", "CreationDate">>

\* The sort keys of each kind and, for each, whether it ascends.
KeysOf(kind) ==
    CASE kind = "instances" -> <<"InstanceState", "InstanceName">>
      [] kind = "interfaces" -> <<"Status", "InterfaceType", "InstanceId">>
      [] kind = "balancers" -> <<"LoadBalancerName">>
      [] kind = "images" -> <<"CreationDate">>

AscendingOf(kind) ==
    CASE kind = "instances" -> <<TRUE, TRUE>>
      [] kind = "interfaces" -> <<TRUE, TRUE, TRUE>>
      [] kind = "balancers" -> <<TRUE>>
      [] kind = "images" -> <<FALSE>>

KeyNames(row) == [j \in DOMAIN row |-> row[j][1]]

Normalized == nresult # <<>> /\ nresult[1].kind = "rows"

\* C2: whichever optional sub-objects a response lacks, normalizing it does
\* not fail and gives one record per leaf resource, each with exactly the
\* fixed fields of its kind, in order.
C2_FieldSetCompleteness ==
    (nresult # <<>> /\ Kind(nresponse) # "unrecognized") =>
        /\ nresult[1].kind = "rows"
        /\ Len(nresult[1].rows) = Len(Leaves(nresponse))
        /\ \A k \in DOMAIN nresult[1].rows :
              KeyNames(nresult[1].rows[k]) = FieldsOf(Kind(nresponse))

\* The records of a response before they are sorted.
Unsorted(response) ==
    LET leaves == Leaves(response) IN
    [k \in DOMAIN leaves |->
        CASE Kind(response) = "instances" -> Ec2Record(leaves[k])
          [] Kind(response) = "interfaces" -> EniRecord(leaves[k])
          [] Kind(response) = "balancers" -> ElbRecord(leaves[k])
          [] Kind(response) = "images" -> ImageRecord(leaves[k])]

IsPermutation(a, b) ==
    /\ Len(a) = Len(b)
    /\ \E p \in Perms(Len(a)) : \A k \in DOMAIN a : a[k] = b[p[k]]

\* x and y hold the same values on the first m - 1 keys.
SameOnEarlier(x, y, keys, m) ==
    \A e \in 1..(m - 1) : Field(x, keys[e]) = Field(y, keys[e])

\* On the first key that tells x and y apart, x is on the side that comes
\* first in the key's direction.
ComesFirst(x, y, keys, asc) ==
    \E m \in DOMAIN keys :
        /\ SameOnEarlier(x, y, keys, m)
        /\ Field(x, keys[m]) # Field(y, keys[m])
        /\ IF asc[m] THEN Rank(Field(x, keys[m])) < Rank(Field(y, keys[m]))
                     ELSE Rank(Field(x, keys[m])) > Rank(Field(y, keys[m]))

NoNullKey(rows, keys) ==
    \A k \in DOMAIN rows : \A m \in DOMAIN keys : ~IsNull(Field(rows[k], keys[m]))

\* C9: records whose sort keys are all present come out as a permutation of
\* the input, ordered by the key sequence of their kind with ties on a key
\* broken by the next: instances by state then name, interfaces by status,
\* type, instance, balancers by name, all ascending; images by creation
\* date, newest first.
C9_SortedByKeys ==
    (Normalized /\ nresult[1].rows # <<>>
     /\ NoNullKey(nresult[1].rows, KeysOf(Kind(nresponse)))) =>
        LET rows == nresult[1].rows
            keys == KeysOf(Kind(nresponse))
            asc == AscendingOf(Kind(nresponse))
        IN  /\ IsPermutation(rows, Unsorted(nresponse))
            /\ \A i, j \in DOMAIN rows :
                  i < j => ~ComesFirst(rows[j], rows[i], keys, asc)

Dates(rows) == [k \in DOMAIN rows |-> Field(rows[k], "CreationDate")]

\* C9 witness: images created 2023-01-01, 2024-06-01, 2022-03-01 came out
\* newest first.
C9_Witness ==
    /\ Normalized
    /\ Kind(nresponse) = "images"
    /\ Dates(Unsorted(nresponse)) = <<"2023-01-01", "2024-06-01", "2022-03-01">>
    /\ Dates(nresult[1].rows) = <<"2024-06-01", "2023-01-01", "2022-03-01">>

\* A pair of positions (i, j) of rows that agree on the keys before the m-th
\* and of which i lacks the m-th key while j has it.
NullAgainstValue(rows, keys, m, i, j) ==
    /\ SameOnEarlier(rows[i], rows[j], keys, m)
    /\ IsNull(Field(rows[i], keys[m]))
    /\ ~IsNull(Field(rows[j], keys[m]))

\* C10 as claimed: a record without a value for a sort key comes before every
\* record that has one and agrees with it on the earlier keys.
C10_NullsFirst ==
    Normalized =>
        LET rows == nresult[1].rows
            keys == KeysOf(Kind(nresponse))
        IN  \A m \in DOMAIN keys : \A i, j \in DOMAIN rows :
                NullAgainstValue(rows, keys, m, i, j) => i < j

\* C10, amended: a record without a value for a sort key comes after every
\* record that has one and agrees with it on the earlier keys, whether the
\* key ascends or descends.
C10_NullsLast ==
    Normalized =>
        LET rows == nresult[1].rows
            keys == KeysOf(Kind(nresponse))
        IN  \A m \in DOMAIN keys : \A i, j \in DOMAIN rows :
                NullAgainstValue(rows, keys, m, i, j) => i > j

\* C10 witness: images, sorted descending, where the payload listed an image
\* without CreationDate first and the result lists it last.
C10_Witness ==
    /\ Normalized
    /\ Kind(nresponse) = "images"
    /\ Len(nresult[1].rows) = 3
    /\ IsNull(Dates(Unsorted(nresponse))[1])
    /\ ~IsNull(Dates(nresult[1].rows)[1])
    /\ ~IsNull(Dates(nresult[1].rows)[2])
    /\ IsNull(Dates(nresult[1].rows)[3])

(***************************************************************************)
(* Properties: the enumeration                                              *)
(***************************************************************************)

\* C11: whatever the lookups list, names equal to "all" included, the
\* enumeration does not end by raising RecursionError, and every session it
\* hands over has a concrete profile and a concrete region.
C11_EnumerationFinishes ==
    /\ profiles.state # "RecursionError"
    /\ \A k \in DOMAIN Produced :
          /\ Produced[k].profile_name # ALL
          /\ Produced[k].region_name # ALL

(***************************************************************************)
(* Properties: a response of unrecognized shape                             *)
(***************************************************************************)

\* C12: a context whose query returned a response holding none of the four
\* collections is not presented: print_data is not called for it.
C12_UnrecognizedNotPresented ==
    \A i \in DOMAIN queried :
        (/\ queried[i].returned = "response"
         /\ Kind(Call(func, queried[i].answer).val) = "unrecognized")
            => EntriesFor(queried[i].session) = {}

(***************************************************************************)
(* Properties: balancers by DNS name                                        *)
(***************************************************************************)

\* The listed balancers whose DNS name is one of those asked for.
Matching ==
    LET Wanted(elb) == "DNSName" \in DOMAIN elb /\ elb.DNSName \in kwargs.dns_names
    IN  SelectSeq(nresponse.LoadBalancers, Wanted)

\* C13: whatever balancers the context lists, a balancers-by-dns-name query
\* gives the records of exactly the listed balancers whose DNS name is one of
\* those asked for: that one record when one matches, an empty record set
\* when none does.
C13_DnsNameFilter ==
    nresult # <<>> => nresult[1] \in deserialize_elbs([LoadBalancers |-> Matching])
====
